---- MODULE Spec2Model ----
(***************************************************************************)
(* A model of the Blockchain class of src/src/blockchain.js: the chain     *)
(* array, the height counter, and every promise-returning method as the    *)
(* synchronous part that runs when it is called plus the continuations     *)
(* that the JavaScript microtask queue runs later, in FIFO order.          *)
(***************************************************************************)
EXTENDS Integers, Sequences, FiniteSets, TLC

VARIABLES chain, height, now, calls, queue

vars == <<chain, height, now, calls, queue>>

(* ------------------------------ bounds -------------------------------- *)

\* client calls issued after the constructor has returned
MaxCalls == 2
\* seconds the wall clock may advance
MaxTicks == 1
\* wall clock (seconds since epoch) when the constructor runs
StartTime == 1000

(* ------------------------------ values -------------------------------- *)

\* JavaScript null: the value of an unset hash / previousBlockHash
Null == <<>>

\* parseInt's NaN; a parsed number n is <<n>>
NaN == <<>>

Addresses == {"A", "B"}
Stars == {"s1"}
Signatures == {"valid", "invalid", "malformed"}

\* the 5 * 60 of submitStar's expiry test
FiveMinutes == 5 * 60

\* payload objects: {data: 'Genesis Block'} and {owner: address, star: star}
GenesisData == [data |-> "Genesis Block", owner |-> "undefined", star |-> "undefined"]
StarData(address, star) == [data |-> "undefined", owner |-> address, star |-> star]

\* one ':'-separated field of a message string
Num(n) == [isNum |-> TRUE, n |-> n, s |-> ""]
Txt(s) == [isNum |-> FALSE, n |-> 0, s |-> s]

(* ------------------------------- Block -------------------------------- *)

\* the stored encoding of a payload (hex of its JSON text)
Encode(data) == [hex |-> data]

\* new BlockClass.Block(data): payload set, the other fields unset
NewBlock(data) ==
    [hash |-> Null, height |-> 0, body |-> Encode(data), time |-> 0,
     previousBlockHash |-> Null]

\* SHA256(JSON.stringify(block)).toString(): a digest of every field of the
\* object as it is when the digest is taken, collision free
SHA256(block) ==
    <<block.hash, block.height, block.body, block.time, block.previousBlockHash>>

\* Block.validate(): recompute the digest with the stored hash left out and
\* compare it with the stored hash
Validate(block) == SHA256([block EXCEPT !.hash = Null]) = block.hash

(* --------------------------- validateChain ---------------------------- *)

ValidationFailed(i) == [index |-> i, what |-> "validation failed"]
PreviousHashInvalid(i) == [index |-> i, what |-> "previous hash invalid"]

\* the for loop of validateChain, from index i to the end of ch
RECURSIVE ValidateLoop(_, _, _)
ValidateLoop(ch, i, errorLog) ==
    IF i > Len(ch) THEN errorLog
    ELSE LET previousBlock == ch[i - 1]
             currentBlock == ch[i]
             log1 == IF ~Validate(currentBlock)
                     THEN Append(errorLog, ValidationFailed(i - 1))
                     ELSE errorLog
             log2 == IF currentBlock.previousBlockHash # previousBlock.hash
                     THEN Append(log1, PreviousHashInvalid(i - 1))
                     ELSE log1
         IN  ValidateLoop(ch, i + 1, log2)

\* validateChain() with the previous-hash comparison left out
ValidateChain_NoLinkCheck(ch) ==
    IF Len(ch) = 0 THEN <<>>
    ELSE SelectSeq([i \in 1..Len(ch) |-> ValidationFailed(i - 1)],
                   LAMBDA e : e.index > 0 /\ ~Validate(ch[e.index + 1]))

\* validateChain(): the errorLog it ends with; the promise resolves with
\* true when the log is empty and rejects with the log otherwise.
\* Sequences are 1-based here: ch[i] is the source's chain[i-1], and the
\* index written into an error is the source's.
ValidateChain(ch) ==
    IF Len(ch) = 0 THEN <<>>
    ELSE IF Len(ch) = 1
         THEN IF ~Validate(ch[1]) THEN <<ValidationFailed(0)>> ELSE <<>>
         ELSE ValidateLoop(ch, 2, <<>>)

(* ------------------------------ _addBlock ----------------------------- *)

\* _getLatestBlock()
GetLatestBlock(ch) == IF Len(ch) > 0 THEN ch[Len(ch)] ELSE Null

\* `await self.validateChain()` returns normally only when the promise
\* resolved; a rejected promise makes the await throw inside the async
\* executor, whose own promise nobody observes
AwaitReturns_Always(errorLog) == TRUE

AwaitReturns(errorLog) == errorLog = <<>>

\* lines 76-88 with the height taken after the push
StampBlock_HeightAfter(block, ch, t) ==
    LET b1 == [block EXCEPT !.time = t, !.height = Len(ch) + 1]
        b2 == [b1 EXCEPT !.hash = SHA256(b1)]
    IN  IF Len(ch) > 0
        THEN [b2 EXCEPT !.previousBlockHash = ch[Len(ch)].hash]
        ELSE b2

\* lines 76-88 with the previous hash never assigned
StampBlock_NoLink(block, ch, t) ==
    LET b1 == [block EXCEPT !.time = t, !.height = Len(ch)]
    IN  [b1 EXCEPT !.hash = SHA256(b1)]

\* lines 76-88: the block as it is pushed, given the chain and the clock
StampBlock(block, ch, t) ==
    LET b1 == [block EXCEPT !.time = t, !.height = Len(ch)]
        newHash == SHA256(b1)
        b2 == [b1 EXCEPT !.hash = newHash]
    IN  IF Len(ch) > 0
        THEN [b2 EXCEPT !.previousBlockHash = GetLatestBlock(ch).hash]
        ELSE b2

\* the block put in front of the chain instead of at its end
Push_Front(ch, block) == <<block>> \o ch

\* line 91: this.chain.push(block)
Push(ch, block) == Append(ch, block)

\* line 92: the height stored after the push
HeightAfterPush(ch) == Len(ch)

(* ------------------------------ submitStar ---------------------------- *)

\* requestMessageOwnershipVerification: address + ":" + time + ":starRegistry"
RequestMessage(address, t) == <<Txt(address), Num(t), Txt("starRegistry")>>

\* parseInt(message.split(':')[1])
ParseMessageTime(message) ==
    IF Len(message) >= 2 /\ message[2].isNum THEN <<message[2].n>> ELSE NaN

\* the expiry test with > in place of >=
Expired_Strict(currentTime, messageTime) ==
    /\ messageTime # NaN
    /\ currentTime > messageTime[1] + FiveMinutes

\* currentTime >= (messageTime + 5*60); any comparison with NaN is false
Expired(currentTime, messageTime) ==
    /\ messageTime # NaN
    /\ currentTime >= messageTime[1] + FiveMinutes

\* bitcoinMessage.verify(message, address, signature): true, false or throws
Verify(message, address, signature) ==
    CASE signature = "valid" -> "true"
      [] signature = "invalid" -> "false"
      [] OTHER -> "throws"

\* the messages a client may submit for an address at time t
Messages(address, t) ==
    { RequestMessage(address, t - d) : d \in {FiveMinutes - 1, FiveMinutes} }
    \cup { <<Txt(address), Txt("soon"), Txt("starRegistry")>>, <<Txt(address)>> }

(* ------------------------------- calls -------------------------------- *)

\* One record per call of a method of the class.
\*   pc     "validate": its _addBlock waits at `await self.validateChain()`
\*          "add":      it waits at `await self._addBlock(block)`
\*          "stuck":    it waits for a promise that can no longer settle
\*          "done":     nothing of it is left to run
\*   add    the promise _addBlock returned: "none", "pending", "resolved"
\*   state  the promise the call itself returned
\*   elapsed   for submitStar, currentTime - messageTime (NaN when the
\*             message carries no number); pushedAt  the length of the chain
\*             right after the call's block was pushed, 0 when none was
\*   seen   while the call waits at `await self.validateChain()`, the length
\*          of the chain that validateChain examined; 0 otherwise
\*   result the value a reading method resolved with
Call(op, address, elapsed, signature, block, errorLog, pc, add, state, reason) ==
    [op |-> op, address |-> address, elapsed |-> elapsed,
     signature |-> signature, block |-> block,
     errorLog |-> errorLog, pc |-> pc, add |-> add, state |-> state,
     reason |-> reason, pushedAt |-> 0,
     seen |-> IF pc = "validate" THEN Len(chain) ELSE 0, result |-> <<>>]

\* constructor(): chain = [], height = -1, then initializeChain() runs up to
\* the await inside _addBlock
Init ==
    /\ chain = <<>>
    /\ height = -1
    /\ now = StartTime
    /\ calls = << [op |-> "initializeChain", address |-> "", elapsed |-> NaN,
                   signature |-> "", block |-> NewBlock(GenesisData),
                   errorLog |-> ValidateChain(<<>>), pc |-> "validate",
                   add |-> "pending", state |-> "pending", reason |-> "",
                   pushedAt |-> 0, seen |-> 0, result |-> <<>>] >>
    /\ queue = <<1>>

CanCall == Len(calls) < MaxCalls + 1

\* initializeChain(): a genesis block is added only when height === -1
CallInitializeChain ==
    /\ CanCall
    /\ IF height = -1
       THEN /\ calls' = Append(calls,
                   Call("initializeChain", "", NaN, "", NewBlock(GenesisData),
                        ValidateChain(chain), "validate", "pending", "pending", ""))
            /\ queue' = Append(queue, Len(calls) + 1)
       ELSE /\ calls' = Append(calls,
                   Call("initializeChain", "", NaN, "", NewBlock(GenesisData),
                        <<>>, "done", "none", "resolved", ""))
            /\ queue' = queue
    /\ UNCHANGED <<chain, height, now>>

\* _addBlock(block) called directly
CallAddBlock ==
    /\ CanCall
    /\ \E address \in Addresses, star \in Stars :
          calls' = Append(calls,
              Call("_addBlock", address, NaN, "", NewBlock(StarData(address, star)),
                   ValidateChain(chain), "validate", "pending", "pending", ""))
    /\ queue' = Append(queue, Len(calls) + 1)
    /\ UNCHANGED <<chain, height, now>>

\* submitStar(address, message, signature, star): the executor up to its
\* first await. reject() settles the promise and returns; only a throw
\* leaves the try block.
SubmitStar(address, message, signature, star) ==
    LET messageTime == ParseMessageTime(message)
        currentTime == now
        expired == Expired(currentTime, messageTime)
        elapsed == IF messageTime = NaN THEN NaN ELSE <<currentTime - messageTime[1]>>
        isValid == Verify(message, address, signature)
        block == NewBlock(StarData(address, star))
    IN  IF isValid = "throws"
        THEN /\ calls' = Append(calls,
                    Call("submitStar", address, elapsed, signature, block, <<>>,
                         "done", "none", "rejected",
                         IF expired THEN "Message Expired" ELSE "verify threw"))
             /\ queue' = queue
        ELSE /\ calls' = Append(calls,
                    Call("submitStar", address, elapsed, signature, block,
                         ValidateChain(chain), "validate", "pending",
                         IF expired \/ isValid = "false" THEN "rejected" ELSE "pending",
                         IF expired THEN "Message Expired"
                         ELSE IF isValid = "false" THEN "Failed message validation."
                         ELSE ""))
             /\ queue' = Append(queue, Len(calls) + 1)

CallSubmitStar ==
    /\ CanCall
    /\ \E address \in Addresses, star \in Stars, signature \in Signatures :
          \E message \in Messages(address, now) :
              SubmitStar(address, message, signature, star)
    /\ UNCHANGED <<chain, height, now>>

\* validateChain() called by a client: the promise resolves (with true)
\* when the errorLog is empty and rejects with the errorLog otherwise
CallValidateChain ==
    /\ CanCall
    /\ LET errorLog == ValidateChain(chain) IN
          calls' = Append(calls,
              Call("validateChain", "", NaN, "", NewBlock(GenesisData), errorLog,
                   "done", "none",
                   IF Len(errorLog) = 0 THEN "resolved" ELSE "rejected",
                   IF Len(errorLog) = 0 THEN "" ELSE "errorLog"))
    /\ UNCHANGED <<chain, height, now, queue>>

\* the continuation of _addBlock after `await self.validateChain()`
ResumeAddBlock(id) ==
    LET c == calls[id] IN
    IF ~AwaitReturns(c.errorLog)
    THEN \* the await throws: nothing below line 69 runs, neither resolve
         \* nor reject is ever called
         /\ calls' = [calls EXCEPT ![id].pc = "stuck", ![id].seen = 0]
         /\ queue' = Tail(queue)
         /\ UNCHANGED <<chain, height>>
    ELSE LET block == StampBlock(c.block, chain, now) IN
         /\ chain' = Push(chain, block)
         /\ height' = HeightAfterPush(chain')
         /\ IF c.op = "_addBlock"
            THEN /\ calls' = [calls EXCEPT ![id].block = block, ![id].pc = "done",
                                           ![id].add = "resolved",
                                           ![id].state = "resolved",
                                           ![id].pushedAt = Len(chain'),
                                           ![id].seen = 0]
                 /\ queue' = Tail(queue)
            ELSE /\ calls' = [calls EXCEPT ![id].block = block, ![id].pc = "add",
                                           ![id].add = "resolved",
                                           ![id].pushedAt = Len(chain'),
                                           ![id].seen = 0]
                 /\ queue' = Append(Tail(queue), id)

\* the continuation of submitStar / initializeChain after
\* `await self._addBlock(block)`: resolve(newBlock), which changes nothing
\* when the promise was rejected before
ResumeCaller(id) ==
    /\ calls' = [calls EXCEPT ![id].pc = "done",
                              ![id].state = IF @ = "pending" THEN "resolved" ELSE @]
    /\ queue' = Tail(queue)
    /\ UNCHANGED <<chain, height>>

\* the microtask at the head of the queue runs
RunMicrotask ==
    /\ queue # <<>>
    /\ LET id == Head(queue) IN
          IF calls[id].pc = "validate" THEN ResumeAddBlock(id) ELSE ResumeCaller(id)
    /\ UNCHANGED now

\* the wall clock advances by a second
Tick ==
    /\ now < StartTime + MaxTicks
    /\ now' = now + 1
    /\ UNCHANGED <<chain, height, calls, queue>>

Next ==
    \/ CallInitializeChain
    \/ CallAddBlock
    \/ CallSubmitStar
    \/ CallValidateChain
    \/ RunMicrotask
    \/ Tick

Spec == Init /\ [][Next]_vars

(* --------------------- validateChain on any chain --------------------- *)

\* longest chain validateChain is tried on
MaxChain == 3

\* getAllBlocks() resolves with the chain array itself, so a client can
\* write into the blocks it holds. What a client may do to one block:
\*   payload  overwrite the body or leave it
\*   link     leave previousBlockHash, set it to the hash now stored in the
\*            block before, or set it to null
\*   hash     leave the hash, store the recomputed digest, or null
TamperOptions ==
    [payload : BOOLEAN, link : {"keep", "relink", "null"},
     hash : {"keep", "rehash", "null"}]

TamperBlock(block, previousHash, option) ==
    LET b1 == IF option.payload
              THEN [block EXCEPT !.body = Encode(StarData("B", "s1"))]
              ELSE block
        b2 == CASE option.link = "relink" -> [b1 EXCEPT !.previousBlockHash = previousHash]
                [] option.link = "null" -> [b1 EXCEPT !.previousBlockHash = Null]
                [] OTHER -> b1
    IN  CASE option.hash = "rehash" -> [b2 EXCEPT !.hash = SHA256([b2 EXCEPT !.hash = Null])]
          [] option.hash = "null" -> [b2 EXCEPT !.hash = Null]
          [] OTHER -> b2

\* the chain _addBlock builds from n payloads, genesis first
RECURSIVE BuiltChain(_)
BuiltChain(n) ==
    IF n = 0 THEN <<>>
    ELSE LET ch == BuiltChain(n - 1)
             data == IF n = 1 THEN GenesisData ELSE StarData("A", "s1")
         IN  Append(ch, StampBlock(NewBlock(data), ch, StartTime))

\* ch with options[i] applied to its i-th block, first block first
RECURSIVE TamperChain(_, _, _)
TamperChain(ch, options, i) ==
    IF i > Len(ch) THEN ch
    ELSE LET previousHash == IF i = 1 THEN Null ELSE ch[i - 1].hash
         IN  TamperChain([ch EXCEPT ![i] = TamperBlock(ch[i], previousHash, options[i])],
                         options, i + 1)

InitV ==
    /\ \E n \in 0..MaxChain :
          \E options \in [1..n -> TamperOptions] :
              chain = TamperChain(BuiltChain(n), options, 1)
    /\ height = IF Len(chain) = 0 THEN -1 ELSE HeightAfterPush(chain)
    /\ now = StartTime
    /\ calls = <<>>
    /\ queue = <<>>

NextV == CallValidateChain

SpecV == InitV /\ [][NextV]_vars

(* ------------------------------ readers ------------------------------- *)

\* a stored payload that is not valid encoded data
Malformed == [data |-> "malformed", owner |-> "undefined", star |-> "undefined"]

\* Block.getBData(): the decoded payload; it throws on a malformed one
CanDecode(block) == block.body.hex # Malformed
GetBData(block) == block.body.hex

\* getChainHeight()
GetChainHeight == height

\* getAllBlocks(): the chain array itself
GetAllBlocks == chain

\* getBlockByHash with the blocks' previous hash compared instead
GetBlockByHash_Previous(ch, hash) ==
    SelectSeq(ch, LAMBDA block : block.previousBlockHash = hash)

\* getBlockByHash(hash): self.chain.filter(block => block.hash === hash)
GetBlockByHash(ch, hash) == SelectSeq(ch, LAMBDA block : block.hash = hash)

\* getBlockByHeight taking the height for a 1-based position
GetBlockByHeight_OneBased(ch, h) ==
    LET found == SelectSeq(ch, LAMBDA p : p.height + 1 = h)
    IN  IF Len(found) > 0 THEN Head(found) ELSE Null

\* getBlockByHeight(height): self.chain.find(p => p.height === height),
\* null when there is none
GetBlockByHeight(ch, h) ==
    LET found == SelectSeq(ch, LAMBDA p : p.height = h)
    IN  IF Len(found) > 0 THEN Head(found) ELSE Null

\* the forEach of getStarsByWalletAddress from block i on: the stars pushed
\* and whether reject(error) was called
RECURSIVE StarsLoop(_, _, _, _)
StarsLoop(ch, address, i, acc) ==
    IF i > Len(ch) THEN acc
    ELSE IF ~CanDecode(ch[i])
         THEN StarsLoop(ch, address, i + 1, [acc EXCEPT !.state = "rejected"])
         ELSE LET decodedBody == GetBData(ch[i]) IN
              IF decodedBody.owner = address
              THEN StarsLoop(ch, address, i + 1,
                             [acc EXCEPT !.stars = Append(@, decodedBody)])
              ELSE StarsLoop(ch, address, i + 1, acc)

\* getStarsByWalletAddress collecting the blocks not owned by the address
GetStarsByWalletAddress_Others(ch, address) ==
    [state |-> "resolved",
     stars |-> [i \in 1..Len(SelectSeq(ch, LAMBDA b : GetBData(b).owner # address)) |->
                   GetBData(SelectSeq(ch, LAMBDA b : GetBData(b).owner # address)[i])]]

\* getStarsByWalletAddress(address): resolve(stars) after the loop, which
\* changes nothing when the loop rejected
GetStarsByWalletAddress(ch, address) ==
    StarsLoop(ch, address, 1, [state |-> "resolved", stars |-> <<>>])

(* ------------------- the wallet scan on any chain --------------------- *)

\* registrations in the chains the wallet scan is tried on
MaxStars == 3

WalletStars == {"s1", "s2"}

\* the addresses a wallet scan is asked for: the owners and a stranger
ScanAddresses == Addresses \cup {"C"}

\* the chain _addBlock builds from genesis and the bodies given
RECURSIVE BuiltFrom(_, _)
BuiltFrom(payloads, n) ==
    IF n = 0 THEN <<StampBlock(NewBlock(GenesisData), <<>>, StartTime)>>
    ELSE LET ch == BuiltFrom(payloads, n - 1)
         IN  Append(ch, StampBlock(NewBlock(payloads[n]), ch, StartTime))

InitW ==
    /\ \E n \in 0..MaxStars :
          \E payloads \in [1..n -> {StarData(a, "s1") : a \in Addresses}
                                    \cup {StarData("A", x) : x \in WalletStars}
                                    \cup {Malformed}] :
              chain = BuiltFrom(payloads, n)
    /\ height = HeightAfterPush(chain)
    /\ now = StartTime
    /\ calls = <<>>
    /\ queue = <<>>

\* getStarsByWalletAddress(address) called by a client
CallGetStarsByWalletAddress ==
    /\ CanCall
    /\ \E address \in ScanAddresses :
          LET r == GetStarsByWalletAddress(chain, address) IN
          calls' = Append(calls,
              [Call("getStarsByWalletAddress", address, NaN, "", NewBlock(GenesisData),
                    <<>>, "done", "none", r.state,
                    IF r.state = "rejected" THEN "decode error" ELSE "")
               EXCEPT !.result = r.stars])
    /\ UNCHANGED <<chain, height, now, queue>>

NextW == CallGetStarsByWalletAddress

SpecW == InitW /\ [][NextW]_vars

(* --------------------- every operation together ---------------------- *)

\* The reading methods resolve with a value and assign nothing. Here their
\* value goes to the caller and no record of the call is kept.
ReadGetChainHeight == \E r \in {GetChainHeight} : UNCHANGED vars

ReadGetAllBlocks == \E r \in {GetAllBlocks} : UNCHANGED vars

ReadGetBlockByHash ==
    \E i \in 1..Len(chain) : \E r \in {GetBlockByHash(chain, chain[i].hash)} :
        UNCHANGED vars

ReadGetBlockByHeight ==
    \E h \in 0..Len(chain) : \E r \in {GetBlockByHeight(chain, h)} : UNCHANGED vars

ReadGetStarsByWalletAddress ==
    \E address \in ScanAddresses : \E r \in {GetStarsByWalletAddress(chain, address)} :
        UNCHANGED vars

ReadRequestMessage ==
    \E address \in Addresses : \E r \in {RequestMessage(address, now)} : UNCHANGED vars

\* every method of the class; the clock stands still here, the time of a
\* call enters nothing but the time field of the block it adds
NextA ==
    \/ CallInitializeChain
    \/ CallAddBlock
    \/ CallSubmitStar
    \/ CallValidateChain
    \/ RunMicrotask
    \/ ReadGetChainHeight
    \/ ReadGetAllBlocks
    \/ ReadGetBlockByHash
    \/ ReadGetBlockByHeight
    \/ ReadGetStarsByWalletAddress
    \/ ReadRequestMessage

SpecA == Init /\ [][NextA]_vars

(* ------------------------------- claims ------------------------------- *)

CallIds == 1..Len(calls)

\* a call that appends through _addBlock
Appends(c) == c.op \in {"initializeChain", "submitStar", "_addBlock"} /\ c.add # "none"

\* nothing of the call is left to run: it is not waiting for a microtask
Finished(c) == c.pc \in {"done", "stuck"}

\* C1: every block after the first carries the hash of the block before it
\* as its previous hash, and its height is its index in the chain.
LinkageInvariant ==
    \A i \in 2..Len(chain) :
        /\ chain[i].previousBlockHash = chain[i - 1].hash
        /\ chain[i].height = i - 1

\* C1 witness: two appends that were in flight together have both pushed
LinkageWitness ==
    /\ Len(chain) >= 3
    /\ chain[3].previousBlockHash = chain[2].hash
    /\ chain[3].previousBlockHash # Null

\* C2: a submitStar that rejected (expired challenge, signature false or
\* verify throwing) runs nothing after the rejection and adds no block.
NoMutationOnRejection ==
    \A id \in CallIds :
        (calls[id].op = "submitStar" /\ calls[id].state = "rejected")
            => (calls[id].add = "none" /\ calls[id].pushedAt = 0)

\* C3: validate() is true of every block of the chain.
SelfHashValid == \A i \in 1..Len(chain) : Validate(chain[i])

\* C4: when the constructor's initializeChain has finished and nothing else
\* was called, the height is 0 and the chain is one valid block without a
\* previous hash.
GenesisInvariant ==
    (Len(calls) = 1 /\ calls[1].pc = "done")
        => /\ height = 0
           /\ Len(chain) = 1
           /\ chain[1].previousBlockHash = Null
           /\ Validate(chain[1])

\* C5: the height is the chain's length less one, -1 for the empty chain.
HeightInvariant == height = Len(chain) - 1

\* C6: after the constructor and accepted registrations only, a submitStar
\* with a challenge younger than five minutes and a valid signature that has
\* nothing left to run has resolved, and its block, with the payload
\* {owner, star}, is in the chain.
OnlyAcceptedBefore(id) ==
    \A d \in 1..(id - 1) :
        \/ d = 1
        \/ /\ calls[d].op = "submitStar"
           /\ calls[d].state = "resolved"
           /\ calls[d].signature = "valid"

ValidRegistrationAccepted ==
    \A id \in CallIds :
        LET c == calls[id] IN
        ( /\ c.op = "submitStar"
          /\ c.signature = "valid"
          /\ c.elapsed # NaN
          /\ c.elapsed[1] < FiveMinutes
          /\ OnlyAcceptedBefore(id)
          /\ Finished(c) )
            => /\ c.state = "resolved"
               /\ c.pushedAt > 0
               /\ \E star \in Stars :
                      chain[c.pushedAt].body = Encode(StarData(c.address, star))

\* C7: the step in which an _addBlock whose validateChain reported an
\* inconsistency resumes changes neither the chain nor the height.
AppendRefusedWhenInvalid ==
    [][\A id \in CallIds :
          ( /\ calls[id].pc = "validate"
            /\ calls'[id].pc # "validate"
            /\ calls[id].errorLog # <<>> )
              => (chain' = chain /\ height' = height)]_vars

\* C7 witness: an _addBlock was refused on a chain validateChain rejects
AppendRefusedWitness ==
    \E id \in CallIds :
        /\ Appends(calls[id])
        /\ calls[id].errorLog # <<>>
        /\ calls[id].pc = "stuck"
        /\ calls[id].pushedAt = 0

\* C8: every call that appends settles; when its validateChain reported an
\* inconsistency it settles as a rejection.
AppendFailureSurfaced ==
    \A id \in CallIds :
        (Appends(calls[id]) /\ Finished(calls[id]))
            => /\ calls[id].state # "pending"
               /\ (calls[id].errorLog # <<>> => calls[id].state = "rejected")

\* C9: a submitStar run five minutes or more after its message's timestamp
\* rejects with "Message Expired"; one run earlier is decided by verify.
ExpiryBoundary ==
    \A id \in CallIds :
        LET c == calls[id] IN
        (c.op = "submitStar" /\ c.elapsed # NaN)
            => /\ (c.elapsed[1] >= FiveMinutes)
                      => (c.state = "rejected" /\ c.reason = "Message Expired")
               /\ (c.elapsed[1] <= FiveMinutes - 1)
                      => /\ c.reason # "Message Expired"
                         /\ (c.signature = "invalid")
                                => (c.state = "rejected"
                                    /\ c.reason = "Failed message validation.")
                         /\ (c.signature = "malformed")
                                => (c.state = "rejected" /\ c.reason = "verify threw")
                         /\ (c.signature = "valid") => c.state # "rejected"

\* C9 witness: one call at exactly five minutes was rejected as expired,
\* one a second younger went through verify and resolved
ExpiryWitness ==
    /\ \E id \in CallIds :
          /\ calls[id].op = "submitStar"
          /\ calls[id].elapsed = <<FiveMinutes>>
          /\ calls[id].reason = "Message Expired"
    /\ \E id \in CallIds :
          /\ calls[id].op = "submitStar"
          /\ calls[id].elapsed = <<FiveMinutes - 1>>
          /\ calls[id].state = "resolved"

\* C10: validateChain's error list holds, in ascending order of index and
\* with the self-hash entry first, exactly one entry for every failed
\* self-hash check and one for every failed previous-hash comparison of the
\* indexes 1..n-1 (of index 0 alone when n = 1); the promise resolves when
\* there is none and rejects with the list otherwise.
SelfHashFails(i) == chain[i + 1].hash # SHA256([chain[i + 1] EXCEPT !.hash = Null])
LinkFails(i) == chain[i + 1].previousBlockHash # chain[i].hash

Inconsistencies ==
    IF Len(chain) = 1
    THEN IF SelfHashFails(0) THEN {ValidationFailed(0)} ELSE {}
    ELSE {ValidationFailed(i) : i \in {j \in 1..(Len(chain) - 1) : SelfHashFails(j)}}
         \cup {PreviousHashInvalid(i) : i \in {j \in 1..(Len(chain) - 1) : LinkFails(j)}}

Before(e, f) ==
    \/ e.index < f.index
    \/ e.index = f.index /\ e.what = "validation failed" /\ f.what = "previous hash invalid"

TamperedAtOne ==
    [BuiltChain(3) EXCEPT ![2].body = Encode(StarData("B", "s1"))]

TamperDetection ==
    \A id \in CallIds :
        (calls[id].op = "validateChain" /\ chain = TamperedAtOne)
            => /\ calls[id].state = "rejected"
               /\ calls[id].errorLog = <<ValidationFailed(1)>>

\* C12: the wallet scan of a chain whose payloads all decode resolves with
\* the decoded payloads of exactly the blocks owned by the address, one per
\* block and in chain order; the genesis payload is never among them.
OwnedBy(address) == {i \in 1..Len(chain) : chain[i].body.hex.owner = address}

WalletScan ==
    \A id \in CallIds :
        LET c == calls[id] IN
        ( /\ c.op = "getStarsByWalletAddress"
          /\ \A i \in 1..Len(chain) : chain[i].body.hex # Malformed )
            => /\ c.state = "resolved"
               /\ Len(c.result) = Cardinality(OwnedBy(c.address))
               /\ \E f \in [1..Len(c.result) -> OwnedBy(c.address)] :
                      /\ \A j, k \in 1..Len(c.result) : j < k => f[j] < f[k]
                      /\ \A j \in 1..Len(c.result) : Encode(c.result[j]) = chain[f[j]].body
               /\ \A j \in 1..Len(c.result) : c.result[j] # GenesisData

\* C12 witness: two registrations of A and one of B; the scans resolved
\* with two stars for A, one for B and none for C
WalletScanWitness ==
    /\ Cardinality(OwnedBy("A")) = 2
    /\ Cardinality(OwnedBy("B")) = 1
    /\ \E i, j, k \in CallIds :
          /\ calls[i].address = "A" /\ Len(calls[i].result) = 2
          /\ calls[j].address = "B" /\ Len(calls[j].result) = 1
          /\ calls[k].address = "C" /\ calls[k].result = <<>>
          /\ calls[k].state = "resolved"

\* C13: the hashes stored in the chain are pairwise distinct, so
\* getBlockByHash resolves with the one block that has the hash, and with
\* nothing for a hash no block has.
UnknownHashes == {Null, SHA256(NewBlock(GenesisData))}

HashLookup ==
    /\ \A i, j \in 1..Len(chain) : i # j => chain[i].hash # chain[j].hash
    /\ \A i \in 1..Len(chain) : GetBlockByHash(chain, chain[i].hash) = <<chain[i]>>
    /\ \A h \in UnknownHashes : GetBlockByHash(chain, h) = <<>>

\* C13 witness: two blocks with the same payload are in the chain, and each
\* is found alone by its hash
HashLookupWitness ==
    \E i, j \in 1..Len(chain) :
        /\ i < j
        /\ chain[i].body = chain[j].body
        /\ GetBlockByHash(chain, chain[i].hash) = <<chain[i]>>
        /\ GetBlockByHash(chain, chain[j].hash) = <<chain[j]>>

\* C14: getBlockByHeight(h) resolves with blocks[h] for 0 <= h < len(blocks)
\* and with null for every other h.
HeightInputs == (-1..(Len(chain) + 1)) \cup {99}

HeightLookup ==
    \A h \in HeightInputs :
        GetBlockByHeight(chain, h) =
            IF 0 <= h /\ h < Len(chain) THEN chain[h + 1] ELSE Null

\* C14 witness: the last of three blocks is found by its height
HeightLookupWitness ==
    /\ Len(chain) = 3
    /\ GetBlockByHeight(chain, 2) = chain[3]
    /\ GetBlockByHeight(chain, 3) = Null

\* C15: when a chain all of whose blocks validated has had a field other
\* than the hash of one block overwritten, validateChain rejects.
\* The block a stored hash was taken of:
Original(block) ==
    [hash |-> block.hash, height |-> block.hash[2], body |-> block.hash[3],
     time |-> block.hash[4], previousBlockHash |-> block.hash[5]]

AllValid(ch) ==
    \A i \in 1..Len(ch) :
        /\ Validate(ch[i])
        /\ (i > 1) => ch[i].previousBlockHash = ch[i - 1].hash

MutatedAt(i) ==
    /\ chain[i].hash # Null
    /\ chain[i] # Original(chain[i])
    /\ AllValid([chain EXCEPT ![i] = Original(chain[i])])

EveryMutationDetected ==
    \A id \in CallIds :
        (calls[id].op = "validateChain" /\ \E i \in 1..Len(chain) : MutatedAt(i))
            => calls[id].state = "rejected"

\* C16: while an append waits between its validateChain and its push, no
\* other append changes the chain: the chain is still the one it examined.
AppendIsCriticalSection ==
    \A id \in CallIds :
        (calls[id].pc = "validate" /\ AwaitReturns(calls[id].errorLog))
            => calls[id].seen = Len(chain)

\* C17: every append whose _addBlock resolved has its block in the chain at
\* the block's height, no two of them at the same height, and the chain is
\* as long as the number of them.
Resolved == {id \in CallIds : calls[id].add = "resolved"}

NoLostUpdate ==
    /\ \A id \in Resolved :
          /\ calls[id].block.height + 1 \in 1..Len(chain)
          /\ chain[calls[id].block.height + 1] = calls[id].block
    /\ \A id, other \in Resolved :
          id # other => calls[id].block.height # calls[other].block.height
    /\ Len(chain) = Cardinality(Resolved)

\* C17 witness: two appends issued while the other was waiting both resolved
NoLostUpdateWitness ==
    \E id, other \in Resolved :
        /\ id > 1 /\ other > id
        /\ calls[id].block.height = 1
        /\ calls[other].block.height = 2
        /\ calls[id].errorLog = <<>> /\ calls[other].errorLog = <<>>

\* C18: the first block of a non-empty chain is the genesis block and no
\* other block carries the genesis payload.
SingleGenesis ==
    Len(chain) > 0
        => /\ chain[1].body = Encode(GenesisData)
           /\ \A i \in 2..Len(chain) : chain[i].body # Encode(GenesisData)

\* C19: every step leaves the chain as it was or adds one block at its end,
\* no block already in the chain changes, and a block is added only by the
\* continuation of an _addBlock.
ChainIsPrefix ==
    /\ Len(chain) <= Len(chain')
    /\ \A i \in 1..Len(chain) : chain'[i] = chain[i]

AppendOnly ==
    [][/\ ChainIsPrefix
       /\ (chain' # chain)
             => /\ Len(chain') = Len(chain) + 1
                /\ \E id \in CallIds :
                      /\ Appends(calls[id])
                      /\ calls[id].pc = "validate"
                      /\ calls'[id].pc # "validate"]_vars

\* C19 witness: the chain has grown past a block that a validateChain call
\* had already looked at
AppendOnlyWitness ==
    /\ Len(chain) >= 2
    /\ \E id \in CallIds : calls[id].op = "validateChain"
    /\ \E id \in CallIds : calls[id].op = "submitStar" /\ calls[id].pushedAt = 2

\* C20: a submitStar adds a block only when its message carries a number t
\* with currentTime - t below five minutes; a message without one is never
\* accepted and never adds a block.
OnlyFreshAppended ==
    \A id \in CallIds :
        LET c == calls[id] IN
        (c.op = "submitStar")
            => /\ (c.elapsed = NaN) => (c.state # "resolved" /\ c.add = "none")
               /\ (c.add # "none") => (c.elapsed # NaN /\ c.elapsed[1] < FiveMinutes)

====
